---- MODULE Spec2Model ----
(***************************************************************************)
(* A model of henge's artifact-packaging core:                             *)
(*   render               (utils/template, src/unnamed/part_000)           *)
(*   getMatchedPlatforms  (src/src/core/configuration.ts)                  *)
(*   normalizeMapping, buildPath, resolveBaseDir, walk, generate           *)
(*                        (src/src/core/artifact.ts)                       *)
(* Strings are sequences of one-character strings, so that splitting,      *)
(* joining, normalising and pattern matching are computed, not assumed.    *)
(* Paths follow the POSIX flavour of node's `path` module (Path.sep = "/").*)
(***************************************************************************)
EXTENDS Integers, Sequences, FiniteSets, TLC

VARIABLES
    rTemplate, rData, rCur, rPasses, rPc,   \* render
    mSpecifier, mPlatforms, mHost, mResult, mPc,  \* getMatchedPlatforms
    nConfig, nResult, nPc,                  \* normalizeMapping
    bPattern, bCaptures, bResult, bPc,      \* buildPath
    project, artifactConfig, mappings,            \* Artifact: its project, configuration, mappings
    metadata, defaultIdPlugin,              \* generate: the manifest, the default-id plugin
    pluginIndex, platformIndex, active,     \* generate: its loops
    archives, manifestFile, events, error, pc

renderVars == <<rTemplate, rData, rCur, rPasses, rPc>>
matchVars == <<mSpecifier, mPlatforms, mHost, mResult, mPc>>
normVars == <<nConfig, nResult, nPc>>
buildVars == <<bPattern, bCaptures, bResult, bPc>>
artifactVars == <<project, artifactConfig, mappings>>
generateVars ==
    <<metadata, defaultIdPlugin, pluginIndex, platformIndex, active, archives,
      manifestFile, events, error, pc>>
vars == <<renderVars, matchVars, normVars, buildVars, artifactVars, generateVars>>

exceptRender == <<matchVars, normVars, buildVars, artifactVars, generateVars>>
exceptMatch == <<renderVars, normVars, buildVars, artifactVars, generateVars>>
exceptNorm == <<renderVars, matchVars, buildVars, artifactVars, generateVars>>
exceptBuild == <<renderVars, matchVars, normVars, artifactVars, generateVars>>
exceptGenerate == <<renderVars, matchVars, normVars, buildVars, artifactVars>>

(***************************************************************************)
(* Generic helpers on sequences.                                           *)
(***************************************************************************)
RECURSIVE SeqsUpTo(_, _)
SeqsUpTo(S, n) ==
    IF n = 0 THEN {<<>>}
    ELSE LET shorter == SeqsUpTo(S, n - 1)
         IN  shorter \cup {Append(s, c) : s \in shorter, c \in S}

RECURSIVE Flatten(_)
Flatten(parts) ==
    IF parts = <<>> THEN <<>> ELSE Head(parts) \o Flatten(Tail(parts))

Range(f) == {f[i] : i \in DOMAIN f}

(***************************************************************************)
(* render (src/unnamed/part_000).                                          *)
(***************************************************************************)
\* The values a JavaScript data node can take in the model.
Undefined == [k |-> "undefined"]
Null == [k |-> "null"]
StrNode(s) == [k |-> "string", s |-> s]
ObjNode(f) == [k |-> "object", f |-> f]

\* The character class [$\w.-] of the placeholder's expression.
ExprChars ==
    {"a", "b", "c", "x", "n", "m", "e", "p", "l", "t", "f", "o", "r", "j", "i", "d",
     "_", "$", ".", "-"}

\* String(value), as String.prototype.replace applies it to the callback's result.
ToStringJS(node) ==
    CASE node.k = "string" -> node.s
      [] node.k = "null" -> <<"n", "u", "l", "l">>
      [] node.k = "object" ->
            <<"[", "o", "b", "j", "e", "c", "t", " ", "O", "b", "j", "e", "c", "t", "]">>
      [] OTHER -> <<"u", "n", "d", "e", "f", "i", "n", "e", "d">>

\* expression.split('.')
RECURSIVE SplitAt(_, _, _)
SplitAt(s, sep, cur) ==
    IF s = <<>> THEN <<cur>>
    ELSE IF Head(s) = sep THEN <<cur>> \o SplitAt(Tail(s), sep, <<>>)
    ELSE SplitAt(Tail(s), sep, Append(cur, Head(s)))

Split(s, sep) == SplitAt(s, sep, <<>>)

\* node[key]: a property read. Reading a property of null or undefined throws
\* a TypeError; a string has none of the model's keys as a property.
GetProp(node, key) ==
    CASE node.k = "object" -> IF key \in DOMAIN node.f THEN node.f[key] ELSE Undefined
      [] node.k = "string" -> Undefined
      [] OTHER -> [k |-> "TypeError"]

\* A variant in which a step that yields undefined gives the empty text.
RECURSIVE WalkKeys_MissIsEmpty(_, _)
WalkKeys_MissIsEmpty(keys, node) ==
    IF keys = <<>> THEN node
    ELSE LET next == GetProp(node, Head(keys))
         IN  IF next.k = "TypeError" THEN next
             ELSE IF next.k = "undefined" THEN StrNode(<<>>)
             ELSE WalkKeys_MissIsEmpty(Tail(keys), next)

\* The loop over the keys (lines 9-15): the node found, Undefined as soon as a
\* step yields undefined, or TypeError when a step reads through null.
RECURSIVE WalkKeys(_, _)
WalkKeys(keys, node) ==
    IF keys = <<>> THEN node
    ELSE LET next == GetProp(node, Head(keys))
         IN  IF next.k \in {"undefined", "TypeError"} THEN next
             ELSE WalkKeys(Tail(keys), next)

\* The end (exclusive) of the longest run of expression characters from i on.
RECURSIVE RunEnd(_, _)
RunEnd(s, i) ==
    IF i <= Len(s) /\ s[i] \in ExprChars THEN RunEnd(s, i + 1) ELSE i

\* Whether /\{([$\w.-]+)\}/ matches at position i, and where the match ends.
MatchAt(s, i) ==
    LET e == RunEnd(s, i + 1)
    IN  [found |-> s[i] = "{" /\ e > i + 1 /\ e <= Len(s) /\ s[e] = "}",
         expr |-> SubSeq(s, i + 1, e - 1),
         last |-> e]

\* template.replace(regex, callback): one substitution pass from position i.
\* The result is the new text, or a thrown TypeError.
RECURSIVE ReplaceFrom(_, _, _, _)
ReplaceFrom(s, i, data, out) ==
    IF i > Len(s) THEN [threw |-> FALSE, s |-> out]
    ELSE LET m == MatchAt(s, i)
         IN  IF ~m.found
             THEN ReplaceFrom(s, i + 1, data, Append(out, s[i]))
             ELSE LET node == WalkKeys(Split(m.expr, "."), data)
                  IN  IF node.k = "TypeError" THEN [threw |-> TRUE, s |-> <<>>]
                      ELSE ReplaceFrom(s, m.last + 1, data,
                                       out \o (IF node.k = "undefined"
                                               THEN SubSeq(s, i, m.last)
                                               ELSE ToStringJS(node)))

ReplacePass(s, data) == ReplaceFrom(s, 1, data, <<>>)

\* Bounds of the render model.
MaxRenderLen == 48
MaxValueLen == 3
MaxPasses == 6

Placeholder(expr) == <<"{">> \o expr \o <<"}">>

\* The templates render is called with.
RenderTemplates ==
    {Placeholder(<<"a">>), Placeholder(<<"b">>), Placeholder(<<"c">>),
     Placeholder(<<"a", ".", "b">>), Placeholder(<<"a", ".", "b", ".", "c">>),
     Placeholder(<<"b", ".", "a">>), Placeholder(<<"a", ".", ".", "b">>),
     Placeholder(<<"a">>) \o <<"-">> \o Placeholder(<<"b">>),
     <<"x", "{", "}">> \o Placeholder(<<"a">>),
     <<"{">> \o Placeholder(<<"b">>) \o <<"}">>,
     <<"x">>, <<>>}

\* The string values of the data: every short text over braces and a key, and
\* some longer ones that chain, grow or nest.
RenderStrings ==
    SeqsUpTo({"{", "a", "}"}, MaxValueLen)
        \cup {Placeholder(<<"b">>), <<"x">>,
              <<"x">> \o Placeholder(<<"a">>),
              Placeholder(<<"a", ".", "b">>),
              Placeholder(<<"b">>) \o Placeholder(<<"b">>),
              <<"a">>}

RenderLeaves == {Undefined, Null} \cup {StrNode(s) : s \in {<<"x">>, Placeholder(<<"a">>), <<"a">>}}

RenderInner ==
    {ObjNode((<<"b">> :> v)) : v \in RenderLeaves \ {Undefined}}
        \cup {ObjNode((<<"b">> :> ObjNode((<<"c">> :> StrNode(<<"x">>))))), ObjNode(<<>>)}

\* A dictionary with keys among a and b; Undefined stands for an absent key.
MkData(va, vb) ==
    ObjNode([key \in {kk \in {<<"a">>, <<"b">>} :
                        (IF kk = <<"a">> THEN va ELSE vb) # Undefined}
                 |-> IF key = <<"a">> THEN va ELSE vb])

RenderDataSet ==
    {MkData(va, vb) :
        va \in {Undefined, Null} \cup {StrNode(s) : s \in RenderStrings} \cup RenderInner,
        vb \in {Undefined, Null}
                \cup {StrNode(s) : s \in {<<"x">>, Placeholder(<<"a">>), Placeholder(<<"b">>),
                                          <<"b", "}">>}}}

InitRender ==
    /\ rTemplate \in RenderTemplates
    /\ rData \in RenderDataSet
    /\ rCur = rTemplate
    /\ rPasses = 0
    /\ rPc = "run"

\* One invocation of render (lines 3-21): a substitution pass, then either the
\* return of the unchanged text or the recursive call on the new text. A
\* TypeError of the callback propagates out of every pending invocation. The
\* recursion has no cap in the code (a JavaScript engine ends it, when it never
\* ends, by a stack overflow); the model follows it for MaxPasses invocations
\* and while the text fits MaxRenderLen.
CanFollow(pass, passes) ==
    pass.threw \/ (passes < MaxPasses /\ Len(pass.s) <= MaxRenderLen)

\* A variant with a cycle guard: it gives up and returns after two invocations.
RenderCall_Capped ==
    /\ rPc = "run"
    /\ LET pass == ReplacePass(rCur, rData)
       IN  /\ CanFollow(pass, rPasses)
           /\ rPasses' = rPasses + 1
           /\ IF pass.threw
              THEN rPc' = "error" /\ rCur' = rCur
              ELSE IF pass.s = rCur \/ rPasses >= 2
              THEN rPc' = "done" /\ rCur' = pass.s
              ELSE rPc' = "run" /\ rCur' = pass.s
    /\ UNCHANGED <<rTemplate, rData, exceptRender>>

RenderCall ==
    /\ rPc = "run"
    /\ LET pass == ReplacePass(rCur, rData)
       IN  /\ CanFollow(pass, rPasses)
           /\ rPasses' = rPasses + 1
           /\ IF pass.threw
              THEN rPc' = "error" /\ rCur' = rCur
              ELSE IF pass.s = rCur
              THEN rPc' = "done" /\ rCur' = rCur
              ELSE rPc' = "run" /\ rCur' = pass.s
    /\ UNCHANGED <<rTemplate, rData, exceptRender>>

IdleRender ==
    /\ rTemplate = <<>>
    /\ rData = ObjNode(<<>>)
    /\ rCur = <<>>
    /\ rPasses = 0
    /\ rPc = "idle"

(***************************************************************************)
(* getMatchedPlatforms (src/src/core/configuration.ts, lines 95-122).      *)
(***************************************************************************)
\* An optional property: absent, or present with a value.
Absent(v) == [some |-> FALSE, v |-> v]
Some(v) == [some |-> TRUE, v |-> v]

\* JavaScript truthiness of an optional array and of an optional string: every
\* array is truthy, the empty one too; the empty string is falsy.
TruthyArray(opt) == opt.some
TruthyString(opt) == opt.some /\ opt.v # ""
TruthyBoolean(opt) == opt.some /\ opt.v

\* platforms.filter(platform => platformNameSet.has(platform.name))
RECURSIVE FilterPlatforms(_, _)
FilterPlatforms(platforms, nameSet) ==
    IF platforms = <<>> THEN <<>>
    ELSE (IF Head(platforms).name \in nameSet THEN <<Head(platforms)>> ELSE <<>>)
             \o FilterPlatforms(Tail(platforms), nameSet)

\* A variant that takes an empty `platforms` list for an absent one.
PlatformNames_EmptyIsAbsent(specifier) ==
    IF specifier.platforms.some /\ specifier.platforms.v # <<>>
    THEN Some(specifier.platforms.v)
    ELSE IF TruthyString(specifier.platform) THEN Some(<<specifier.platform.v>>)
    ELSE Absent(<<>>)

\* Lines 96-98: specifier.platforms ? specifier.platforms
\*                                   : specifier.platform && [specifier.platform]
PlatformNames(specifier) ==
    IF TruthyArray(specifier.platforms) THEN Some(specifier.platforms.v)
    ELSE IF TruthyString(specifier.platform) THEN Some(<<specifier.platform.v>>)
    ELSE Absent(<<>>)

getMatchedPlatforms(specifier, platforms, host) ==
    LET platformNames == PlatformNames(specifier)
    IN  IF platformNames.some
        THEN [platforms |-> FilterPlatforms(platforms, Range(platformNames.v)),
              specified |-> TRUE]
        ELSE IF TruthyBoolean(specifier.multiplatform)
        THEN [platforms |-> platforms, specified |-> TRUE]
        ELSE [platforms |-> <<[name |-> host]>>, specified |-> FALSE]

\* Bounds of the platform-resolution model.
MaxPlatforms == 3
MaxSpecifierPlatforms == 2

PlatformNameSet == {"linux", "win32"}
HostNames == {"linux", "darwin"}

PlatformLists(n) == {[i \in DOMAIN s |-> [name |-> s[i]]] : s \in SeqsUpTo(PlatformNameSet, n)}

Specifiers ==
    [multiplatform : {Absent(FALSE), Some(FALSE), Some(TRUE)},
     platform : {Absent(""), Some("")} \cup {Some(n) : n \in PlatformNameSet},
     platforms : {Absent(<<>>)}
                    \cup {Some(s) : s \in SeqsUpTo(PlatformNameSet, MaxSpecifierPlatforms)}]

NoResult == [platforms |-> <<>>, specified |-> FALSE]

InitMatch ==
    /\ mSpecifier \in Specifiers
    /\ mPlatforms \in PlatformLists(MaxPlatforms)
    /\ mHost \in HostNames
    /\ mResult = NoResult
    /\ mPc = "call"

MatchCall ==
    /\ mPc = "call"
    /\ mResult' = getMatchedPlatforms(mSpecifier, mPlatforms, mHost)
    /\ mPc' = "returned"
    /\ UNCHANGED <<mSpecifier, mPlatforms, mHost, exceptMatch>>

IdleMatch ==
    /\ mSpecifier = [multiplatform |-> Absent(FALSE), platform |-> Absent(""),
                     platforms |-> Absent(<<>>)]
    /\ mPlatforms = <<>>
    /\ mHost = "linux"
    /\ mResult = NoResult
    /\ mPc = "idle"

(***************************************************************************)
(* node's `path` module, POSIX flavour: normalize, join, basename.         *)
(***************************************************************************)
Sep == "/"

EndsWithSep(s) == s # <<>> /\ s[Len(s)] = Sep
StartsWithSep(s) == s # <<>> /\ s[1] = Sep

RECURSIVE JoinWith(_, _)
JoinWith(segs, sep) ==
    IF segs = <<>> THEN <<>>
    ELSE IF Len(segs) = 1 THEN Head(segs)
    ELSE Head(segs) \o sep \o JoinWith(Tail(segs), sep)

\* normalizeString: empty and "." segments are dropped, ".." removes the
\* segment before it, or stays when nothing can be removed and the path may
\* climb above its start.
RECURSIVE NormalizeSegs(_, _, _)
NormalizeSegs(segs, allowAboveRoot, res) ==
    IF segs = <<>> THEN res
    ELSE LET seg == Head(segs)
             next ==
                 IF seg = <<>> \/ seg = <<".">> THEN res
                 ELSE IF seg = <<".", ".">>
                 THEN IF res # <<>> /\ res[Len(res)] # <<".", ".">>
                      THEN SubSeq(res, 1, Len(res) - 1)
                      ELSE IF allowAboveRoot THEN Append(res, seg) ELSE res
                 ELSE Append(res, seg)
         IN  NormalizeSegs(Tail(segs), allowAboveRoot, next)

\* Path.normalize
Normalize(path) ==
    IF path = <<>> THEN <<".">>
    ELSE LET isAbsolute == StartsWithSep(path)
             body == JoinWith(NormalizeSegs(Split(path, Sep), ~isAbsolute, <<>>), <<Sep>>)
             dotted == IF body = <<>> /\ ~isAbsolute THEN <<".">> ELSE body
             closed == IF dotted # <<>> /\ EndsWithSep(path) THEN Append(dotted, Sep) ELSE dotted
         IN  IF isAbsolute THEN <<Sep>> \o closed ELSE closed

\* Path.join: the non-empty arguments joined by the separator, normalized.
PathJoin(args) ==
    LET joined == JoinWith(SelectSeq(args, LAMBDA a : a # <<>>), <<Sep>>)
    IN  IF joined = <<>> THEN <<".">> ELSE Normalize(joined)

\* Path.basename: the last component, trailing separators ignored.
Basename(path) ==
    LET named == SelectSeq(Split(path, Sep), LAMBDA seg : seg # <<>>)
    IN  IF named = <<>> THEN <<>> ELSE named[Len(named)]

GlobStar == <<"*", "*">>

(***************************************************************************)
(* Artifact.normalizeMapping (src/src/core/artifact.ts, lines 193-241).    *)
(***************************************************************************)
\* Truthiness of an optional text: absent and the empty text are falsy.
TruthyText(opt) == opt.some /\ opt.v # <<>>

\* A variant that merges `platform` and `platforms` into the set.
PlatformSetOf_Merged(config) ==
    IF config.platforms.some \/ TruthyString(config.platform)
    THEN Some((IF config.platforms.some THEN Range(config.platforms.v) ELSE {})
                 \cup (IF TruthyString(config.platform) THEN {config.platform.v} ELSE {}))
    ELSE Absent({})

\* Lines 209-213: config.platforms || (config.platform ? [config.platform] : undefined)
PlatformSetOf(config) ==
    IF TruthyArray(config.platforms) THEN Some(Range(config.platforms.v))
    ELSE IF TruthyString(config.platform) THEN Some({config.platform.v})
    ELSE Absent({})

Failure(message) ==
    [ok |-> FALSE, error |-> message,
     mapping |-> [package |-> Absent(""), pattern |-> <<>>, baseDir |-> Absent(<<>>),
                  path |-> <<>>, platformSet |-> Absent({})]]

\* A variant that leaves a directory target as it is.
DirectoryTarget_Kept(path, baseName) == path

\* Lines 224-232 for a path that ends in a separator.
DirectoryTarget(path, baseName) == PathJoin(<<path, baseName>>)

normalizeMapping(config) ==
    LET isString == config.kind = "string"
        pattern == IF isString THEN Some(Normalize(config.text))
                   ELSE IF TruthyText(config.pattern) THEN Some(Normalize(config.pattern.v))
                   ELSE config.pattern
        baseDir == IF ~isString /\ TruthyText(config.baseDir)
                   THEN Some(Normalize(config.baseDir.v))
                   ELSE IF isString THEN Absent(<<>>) ELSE config.baseDir
        path == IF ~isString /\ TruthyText(config.path) THEN Some(Normalize(config.path.v))
                ELSE pattern
        baseName == Basename(pattern.v)
    IN  IF ~TruthyText(pattern)
        THEN Failure("Property pattern is required for mapping")
        ELSE IF EndsWithSep(pattern.v)
        THEN Failure("Expecting mapping pattern to match files instead of directories")
        ELSE IF EndsWithSep(path.v) /\ baseName = GlobStar /\ Basename(path.v) = GlobStar
        THEN Failure("Invalid path option")
        ELSE [ok |-> TRUE, error |-> "",
              mapping |->
                  [package |-> IF isString THEN Absent("") ELSE config.package,
                   pattern |-> pattern.v,
                   baseDir |-> baseDir,
                   path |-> IF EndsWithSep(path.v) THEN DirectoryTarget(path.v, baseName)
                            ELSE path.v,
                   platformSet |-> IF isString THEN Absent({}) ELSE PlatformSetOf(config)]]

\* Bounds of the mapping-normalisation model.
MaxPatternLen == 3
MaxPathLen == 3

PathChars == {"/", ".", "*", "a"}

StringEntry(text) ==
    [kind |-> "string", text |-> text, package |-> Absent(""), pattern |-> Absent(<<>>),
     baseDir |-> Absent(<<>>), path |-> Absent(<<>>), platform |-> Absent(""),
     platforms |-> Absent(<<>>)]

Descriptor(package, pattern, baseDir, path, platform, platforms) ==
    [kind |-> "descriptor", text |-> <<>>, package |-> package, pattern |-> pattern,
     baseDir |-> baseDir, path |-> path, platform |-> platform, platforms |-> platforms]

\* The example of a directory target: pattern a/b.txt with path out/ .
ExamplePattern == <<"a", "/", "b", ".", "t", "x", "t">>
ExamplePath == <<"o", "u", "t", "/">>

NormalizeEntries ==
    {StringEntry(s) : s \in SeqsUpTo(PathChars, MaxPatternLen)}
        \cup {Descriptor(Absent(""), pattern, Absent(<<>>), path, platform, Absent(<<>>)) :
                pattern \in {Absent(<<>>), Some(ExamplePattern)}
                                \cup {Some(s) : s \in SeqsUpTo(PathChars, MaxPatternLen)},
                path \in {Absent(<<>>), Some(ExamplePath)}
                                \cup {Some(s) : s \in SeqsUpTo(PathChars, MaxPathLen)},
                platform \in {Absent("")}}
        \cup {Descriptor(Some("dep"), Some(ExamplePattern), Some(<<"a", "/", ".", "/">>),
                         Absent(<<>>), platform, platforms) :
                platform \in {Absent(""), Some(""), Some("linux")},
                platforms \in {Absent(<<>>), Some(<<>>), Some(<<"win32">>)}}

InitNormalize ==
    /\ nConfig \in NormalizeEntries
    /\ nResult = Failure("")
    /\ nPc = "call"

NormalizeCall ==
    /\ nPc = "call"
    /\ nResult' = normalizeMapping(nConfig)
    /\ nPc' = IF nResult'.ok THEN "returned" ELSE "threw"
    /\ UNCHANGED <<nConfig, exceptNorm>>

IdleNormalize ==
    /\ nConfig = StringEntry(<<>>)
    /\ nResult = Failure("")
    /\ nPc = "idle"

(***************************************************************************)
(* Artifact.buildPath (src/src/core/artifact.ts, lines 243-283).           *)
(***************************************************************************)
\* A capture of the file walker: the text one `*` matched, or the segments
\* one `**` matched.
Segment(text) == [type |-> "string", text |-> text, segments |-> <<>>]
SegmentRun(segments) == [type |-> "array", text |-> <<>>, segments |-> segments]

\* String.prototype.split with a separator of one or more characters.
RECURSIVE SplitOnFrom(_, _, _, _, _)
SplitOnFrom(s, i, token, cur, out) ==
    IF i > Len(s) THEN Append(out, cur)
    ELSE IF i + Len(token) - 1 <= Len(s) /\ SubSeq(s, i, i + Len(token) - 1) = token
    THEN SplitOnFrom(s, i + Len(token), token, <<>>, Append(out, cur))
    ELSE SplitOnFrom(s, i + 1, token, Append(cur, s[i]), out)

SplitOn(s, token) == SplitOnFrom(s, 1, token, <<>>, <<>>)

\* parts.splice(i, 0, item), i counted from 0.
Splice(parts, i, item) == SubSeq(parts, 1, i) \o <<item>> \o SubSeq(parts, i + 1, Len(parts))

\* The loops of lines 259-265 and 271-273: from the last boundary down, pop
\* the last capture and splice it in (an empty one leaves the parts alone).
RECURSIVE SpliceCaptures(_, _, _)
SpliceCaptures(parts, i, captures) ==
    IF i > 0 /\ captures # <<>>
    THEN LET capture == captures[Len(captures)]
         IN  SpliceCaptures(
                 IF capture # <<>> THEN Splice(parts, i, capture) ELSE parts,
                 i - 1, SubSeq(captures, 1, Len(captures) - 1))
    ELSE parts

starCapturesOf(captures) ==
    LET strings == SelectSeq(captures, LAMBDA c : c.type = "string")
    IN  [i \in DOMAIN strings |-> strings[i].text]

\* Each `**` capture as the text spliced in: Path.join(...capture), or nothing
\* for an empty capture.
globStarsCapturesOf(captures) ==
    LET arrays == SelectSeq(captures, LAMBDA c : c.type = "array")
    IN  [i \in DOMAIN arrays |->
            IF arrays[i].segments = <<>> THEN <<>> ELSE PathJoin(arrays[i].segments)]

buildPath(pattern, captures) ==
    LET startWithSlash == StartsWithSep(pattern)
        globParts == SplitOn(pattern, GlobStar)
        withRuns == SpliceCaptures(globParts, Len(globParts) - 1, globStarsCapturesOf(captures))
        starParts == SplitOn(Flatten(withRuns), <<"*">>)
        withStars == SpliceCaptures(starParts, Len(starParts) - 1, starCapturesOf(captures))
        path == Normalize(Flatten(withStars))
    IN  IF ~startWithSlash /\ StartsWithSep(path) THEN Tail(path) ELSE path

\* Bounds of the path-reconstruction model.
MaxDestinationLen == 5
MaxCaptures == 2

DestinationChars == {"*", "/", "a"}
\* File and directory names; on POSIX a directory may be named b*.
StarredName == <<"b", "*">>
CaptureSet ==
    {Segment(<<"b">>), Segment(<<"c">>)}
        \cup {SegmentRun(r) : r \in {<<>>, <<<<"b">>>>, <<<<"b">>, <<"c">>>>, <<StarredName>>}}

\* The spec's examples: "dist/*/out.js" and "lib/**/*.js".
ExampleDestinations ==
    {<<"d", "i", "s", "t", "/", "*", "/", "o", "u", "t", ".", "j", "s">>,
     <<"l", "i", "b", "/", "*", "*", "/", "*", ".", "j", "s">>}

InitBuild ==
    /\ bPattern \in SeqsUpTo(DestinationChars, MaxDestinationLen) \cup ExampleDestinations
    /\ bCaptures \in SeqsUpTo(CaptureSet, MaxCaptures)
    /\ bResult = <<>>
    /\ bPc = "call"

BuildCall ==
    /\ bPc = "call"
    /\ bResult' = buildPath(bPattern, bCaptures)
    /\ bPc' = "returned"
    /\ UNCHANGED <<bPattern, bCaptures, exceptBuild>>

IdleBuild ==
    /\ bPattern = <<>>
    /\ bCaptures = <<>>
    /\ bResult = <<>>
    /\ bPc = "idle"

(***************************************************************************)
(* Artifact: constructor, resolveBaseDir, walk, generate                   *)
(* (src/src/core/artifact.ts, lines 32-191).                               *)
(***************************************************************************)
\* render as a function: the text its recursion ends with.
RECURSIVE render(_, _, _)
render(template, data, passes) ==
    LET pass == ReplacePass(template, data)
    IN  IF passes = 0 \/ pass.threw \/ pass.s = template THEN template
        ELSE render(pass.s, data, passes - 1)

\* Object.assign(target, source) on dictionaries.
Assign(target, source) ==
    ObjNode([key \in DOMAIN target.f \cup DOMAIN source.f |->
                IF key \in DOMAIN source.f THEN source.f[key] ELSE target.f[key]])

\* The text of a platform's name.
TextOf(name) ==
    CASE name = "linux" -> <<"l", "i", "n", "u", "x">>
      [] name = "win32" -> <<"w", "i", "n">>
      [] OTHER -> <<"d", "a", "r", "w", "i", "n">>

\* Project.renderTemplate: render over the project's own data (its name) with
\* the data of the call assigned over it.
renderTemplate(template, data) ==
    render(template, Assign(ObjNode((<<"n", "a", "m", "e">> :> StrNode(project.name))), data),
           MaxPasses)

\* Path.resolve of directories of which the first is absolute.
RECURSIVE LastAbsolute(_, _)
LastAbsolute(dirs, i) ==
    IF i = 1 \/ StartsWithSep(dirs[i]) THEN i ELSE LastAbsolute(dirs, i - 1)

PathResolve(dirs) ==
    LET from == LastAbsolute(dirs, Len(dirs))
        joined == Normalize(JoinWith(SubSeq(dirs, from, Len(dirs)), <<Sep>>))
    IN  IF Len(joined) > 1 /\ EndsWithSep(joined) THEN SubSeq(joined, 1, Len(joined) - 1)
        ELSE joined

\* The key of the dependency-directory table: `${packageName}\t${platform}`.
PlatformKey(packageName, platform) == <<packageName, platform>>
GenericKey(packageName) == <<packageName>>

MapGet(map, key) == IF key \in DOMAIN map THEN Some(map[key]) ELSE Absent(<<>>)

\* A variant that looks the platform's directory up whether or not the
\* project's platforms were specified.
DependencyDir_AnyPlatform(packageName, platform) ==
    LET specific == MapGet(project.dependencyDirMap, PlatformKey(packageName, platform))
    IN  IF TruthyText(specific) THEN specific
        ELSE MapGet(project.dependencyDirMap, GenericKey(packageName))

\* Lines 83-85: project.platformSpecified && map.get(`${packageName}\t${platform}`)
\*              || map.get(packageName)
DependencyDir(packageName, platform) ==
    LET specific == MapGet(project.dependencyDirMap, PlatformKey(packageName, platform))
    IN  IF project.platformSpecified /\ TruthyText(specific) THEN specific
        ELSE MapGet(project.dependencyDirMap, GenericKey(packageName))

\* Artifact.resolveBaseDir (lines 76-110): the directory, or the error thrown.
resolveBaseDir(mapping, platform) ==
    IF TruthyString(mapping.package)
    THEN LET baseDir == DependencyDir(mapping.package.v, platform)
         IN  IF ~TruthyText(baseDir)
             THEN [ok |-> FALSE, dir |-> <<>>]
             ELSE [ok |-> TRUE,
                   dir |-> IF TruthyText(mapping.baseDir)
                           THEN PathResolve(<<baseDir.v, mapping.baseDir.v>>)
                           ELSE baseDir.v]
    ELSE [ok |-> TRUE,
          dir |-> PathResolve(<<project.dir>>
                                  \o (IF TruthyText(artifactConfig.baseDir) THEN <<artifactConfig.baseDir.v>> ELSE <<>>)
                                  \o (IF TruthyText(mapping.baseDir) THEN <<mapping.baseDir.v>> ELSE <<>>))]

\* platform.variables, which the host platform's record does not have.
VariablesOf(platform) ==
    IF "variables" \in DOMAIN platform THEN platform.variables ELSE <<>>

\* Lines 47-49: Object.assign({platform: platform.name}, platform.variables)
WalkData(platform) ==
    Assign(ObjNode((<<"p", "l", "a", "t", "f", "o", "r", "m">> :> StrNode(TextOf(platform.name)))),
           ObjNode(VariablesOf(platform)))

\* Lines 152-154: {platform: project.platformSpecified ? platform.name : undefined}
IdData(platform) ==
    ObjNode((<<"p", "l", "a", "t", "f", "o", "r", "m">> :>
                IF project.platformSpecified THEN StrNode(TextOf(platform.name)) ELSE Undefined))

NamePlatformTemplate ==
    Placeholder(<<"n", "a", "m", "e">>) \o <<"-">>
        \o Placeholder(<<"p", "l", "a", "t", "f", "o", "r", "m">>)
NameTemplate == Placeholder(<<"n", "a", "m", "e">>)

\* plugin.getDefaultArtifactId(platform?): what the plugin answers when it is
\* given a platform and when it is given none.
GetDefaultArtifactId(plugin, platformGiven) ==
    IF platformGiven THEN plugin.idWithPlatform ELSE plugin.idWithout

\* A variant that chooses the literal by the number of platforms.
IdTemplate_ByPlatformCount(platform) ==
    IF TruthyText(artifactConfig.id) THEN artifactConfig.id.v
    ELSE IF defaultIdPlugin # 0
    THEN GetDefaultArtifactId(project.plugins[defaultIdPlugin], project.platformSpecified)
    ELSE IF Len(project.platforms) > 1 THEN NamePlatformTemplate ELSE NameTemplate

\* Lines 146-150.
IdTemplate(platform) ==
    IF TruthyText(artifactConfig.id) THEN artifactConfig.id.v
    ELSE IF defaultIdPlugin # 0
    THEN GetDefaultArtifactId(project.plugins[defaultIdPlugin], project.platformSpecified)
    ELSE IF project.platformSpecified THEN NamePlatformTemplate ELSE NameTemplate

\* A variant that lets a mapping restricted to other platforms through.
IsActive_Always(mapping, platform) == TRUE

\* Line 160: !mapping.platformSet || mapping.platformSet.has(platform.name)
IsActive(mapping, platform) ==
    ~mapping.platformSet.some \/ platform.name \in mapping.platformSet.v

\* Lines 158-160: the indexes of the mappings kept for a platform, in order.
ActiveMappings(platform) ==
    SelectSeq([i \in DOMAIN mappings |-> i], LAMBDA i : IsActive(mappings[i], platform))

Event(type, platform, index) == [type |-> type, platform |-> platform, index |-> index]

AfterPlatform(next) == IF next <= Len(project.platforms) THEN "open" ELSE "manifest"

\* Bounds of the generate model.
MaxFiles == 2
MaxPlugins == 2
MaxProjectPlatforms == 2

PlatformKeyText == <<"p", "l", "a", "t", "f", "o", "r", "m">>
AbiKeyText == <<"a", "b", "i">>

\* The platforms a project configures: linux has a variable, win32 has none.
PlatformInfos ==
    {[name |-> "linux", variables |-> (AbiKeyText :> StrNode(<<"x">>))],
     [name |-> "win32", variables |-> <<>>]}

\* The configured lists: no platform twice.
ConfiguredPlatforms ==
    {s \in SeqsUpTo(PlatformInfos, MaxProjectPlatforms) :
        \A i, j \in DOMAIN s : s[i].name = s[j].name => i = j}

\* What the project holds: the platforms getMatchedPlatforms resolves.
ResolvedPlatforms ==
    {getMatchedPlatforms([multiplatform |-> multiplatform, platform |-> platform,
                          platforms |-> Absent(<<>>)], configured, host) :
        multiplatform \in {Absent(FALSE), Some(TRUE)},
        platform \in {Absent(""), Some("linux")},
        configured \in ConfiguredPlatforms,
        host \in HostNames}

MetadataPlugin ==
    [processArtifactMetadata |-> TRUE, getDefaultArtifactId |-> FALSE,
     idWithPlatform |-> <<>>, idWithout |-> <<>>]
IdPlugin ==
    [processArtifactMetadata |-> FALSE, getDefaultArtifactId |-> TRUE,
     idWithPlatform |-> <<"a", "-">> \o Placeholder(PlatformKeyText), idWithout |-> <<"a">>]
FullPlugin ==
    [processArtifactMetadata |-> TRUE, getDefaultArtifactId |-> TRUE,
     idWithPlatform |-> <<"b", "-">> \o Placeholder(PlatformKeyText), idWithout |-> <<"b">>]
PluginKinds == {MetadataPlugin, IdPlugin, FullPlugin}

\* The lists project.plugins takes: no plugin twice.
PluginLists ==
    {plugins \in SeqsUpTo(PluginKinds, MaxPlugins) :
        \A i, j \in DOMAIN plugins : plugins[i] = plugins[j] => i = j}

ConfiguredIds ==
    {Absent(<<>>), Some(<<>>),
     Some(Placeholder(<<"n", "a", "m", "e">>) \o <<"_">> \o Placeholder(PlatformKeyText)
              \o <<"_">> \o Placeholder(AbiKeyText))}

GenericDir == <<"/", "d">>
LinuxDir == <<"/", "l">>
DependencyDirMaps ==
    {<<>>,
     (GenericKey("dep") :> GenericDir),
     (PlatformKey("dep", "linux") :> LinuxDir),
     (GenericKey("dep") :> GenericDir) @@ (PlatformKey("dep", "linux") :> LinuxDir)}
FullDependencyDirMap ==
    (GenericKey("dep") :> GenericDir) @@ (PlatformKey("dep", "linux") :> LinuxDir)

\* The entries of config.files: a bare pattern, and descriptors with platform,
\* with platforms, with both, with an empty platforms, with an empty platform,
\* with and without a package.
FileEntries ==
    {StringEntry(<<"a">>),
     Descriptor(Some("dep"), Some(<<"a">>), Absent(<<>>), Absent(<<>>), Some("linux"),
                Absent(<<>>)),
     Descriptor(Absent(""), Some(Placeholder(AbiKeyText)), Some(<<"s">>), Some(<<"o", "/">>),
                Absent(""), Some(<<"win32", "linux">>)),
     Descriptor(Absent(""), Some(<<"a">>), Absent(<<>>), Absent(<<>>), Some("linux"),
                Some(<<"win32">>)),
     Descriptor(Some("dep"), Some(<<"a">>), Some(<<"s">>), Absent(<<>>), Some("linux"),
                Some(<<>>)),
     Descriptor(Some("dep"), Some(<<"a">>), Some(<<"s">>), Absent(<<>>), Some(""),
                Absent(<<>>))}

\* The lists config.files takes: no entry twice.
FileLists ==
    {files \in SeqsUpTo(FileEntries, MaxFiles) :
        \A i, j \in DOMAIN files : files[i] = files[j] => i = j}

\* The plugins, the configured id and the dependency directories of a run:
\* each varies while the others keep their plain values.
ArtifactSetups ==
    {[plugins |-> plugins, id |-> Absent(<<>>), dependencyDirMap |-> FullDependencyDirMap] :
        plugins \in PluginLists}
        \cup {[plugins |-> plugins, id |-> id, dependencyDirMap |-> FullDependencyDirMap] :
                plugins \in {<<>>, <<IdPlugin>>}, id \in ConfiguredIds}
        \cup {[plugins |-> <<>>, id |-> Absent(<<>>), dependencyDirMap |-> map] :
                map \in DependencyDirMaps}

NoMetadata == [artifacts |-> <<>>, processedBy |-> <<>>]

\* The constructor (lines 32-41) over a configuration whose files all
\* normalize, and the start of generate (lines 112-125).
InitGenerate ==
    /\ \E setup \in ArtifactSetups, resolved \in ResolvedPlatforms,
          files \in FileLists :
            /\ project = [name |-> <<"h">>, dir |-> <<"/", "p">>,
                          platforms |-> resolved.platforms,
                          platformSpecified |-> resolved.specified,
                          plugins |-> setup.plugins,
                          dependencyDirMap |-> setup.dependencyDirMap]
            /\ artifactConfig = [id |-> setup.id, files |-> files, baseDir |-> Absent(<<>>),
                                 targetDir |-> IF setup.id.some THEN Some(<<"t">>)
                                               ELSE Absent(<<>>)]
            /\ mappings = [i \in DOMAIN files |-> normalizeMapping(files[i]).mapping]
    /\ metadata = NoMetadata
    /\ defaultIdPlugin = 0
    /\ pluginIndex = 1
    /\ platformIndex = 1
    /\ active = <<>>
    /\ archives = <<>>
    /\ manifestFile = Absent(NoMetadata)
    /\ events = <<>>
    /\ error = ""
    /\ pc = IF project.plugins # <<>> THEN "hooks" ELSE AfterPlatform(1)

\* Lines 127-135: one plugin of the loop.
RunPluginHooks ==
    /\ pc = "hooks"
    /\ LET plugin == project.plugins[pluginIndex]
       IN  /\ metadata' = IF plugin.processArtifactMetadata
                          THEN [metadata EXCEPT !.processedBy = Append(@, pluginIndex)]
                          ELSE metadata
           /\ events' = IF plugin.processArtifactMetadata
                        THEN Append(events, Event("hook", 0, pluginIndex))
                        ELSE events
           /\ defaultIdPlugin' = IF plugin.getDefaultArtifactId THEN pluginIndex
                                 ELSE defaultIdPlugin
    /\ pluginIndex' = pluginIndex + 1
    /\ pc' = IF pluginIndex < Len(project.plugins) THEN "hooks" ELSE AfterPlatform(1)
    /\ UNCHANGED <<platformIndex, active, archives, manifestFile, error,
                   exceptGenerate>>

\* Lines 138-160: the id of the platform's artifact, a new archiver, and the
\* mappings kept for the platform.
OpenArchive ==
    /\ pc = "open"
    /\ LET platform == project.platforms[platformIndex]
           kept == ActiveMappings(platform)
       IN  /\ archives' = Append(archives,
                                 [platform |-> platformIndex,
                                  id |-> renderTemplate(IdTemplate(platform), IdData(platform)),
                                  state |-> "open",
                                  walked |-> <<>>])
           /\ active' = kept
           /\ pc' = IF kept # <<>> THEN "walk" ELSE "finalize"
    /\ events' = Append(events, Event("create", platformIndex, 0))
    /\ UNCHANGED <<metadata, defaultIdPlugin, pluginIndex, platformIndex, manifestFile,
                   error, exceptGenerate>>

\* Lines 51-73: one mapping of walk's loop: its base directory (or the error
\* thrown), its rendered pattern and path, and the file walker's run, which
\* adds the files it matches to the archive.
WalkMapping ==
    /\ pc = "walk"
    /\ LET platform == project.platforms[platformIndex]
           mapping == mappings[Head(active)]
           baseDir == resolveBaseDir(mapping, platform.name)
           data == WalkData(platform)
           mappingPath == renderTemplate(mapping.path, data)
       IN  IF ~baseDir.ok
           THEN /\ pc' = "failed"
                /\ error' = "Dependency package not found"
                /\ UNCHANGED <<archives, active, events>>
           ELSE /\ archives' =
                       [archives EXCEPT ![Len(archives)].walked =
                           Append(@, [mapping |-> Head(active),
                                      resolved |-> baseDir.dir,
                                      baseDir |-> renderTemplate(baseDir.dir, data),
                                      pattern |-> renderTemplate(mapping.pattern, data),
                                      path |-> IF TruthyText(artifactConfig.targetDir)
                                               THEN PathJoin(<<renderTemplate(artifactConfig.targetDir.v,
                                                                              ObjNode(<<>>)),
                                                               mappingPath>>)
                                               ELSE mappingPath])]
                /\ events' = Append(events, Event("walk", platformIndex, Head(active)))
                /\ active' = Tail(active)
                /\ pc' = IF Tail(active) # <<>> THEN "walk" ELSE "finalize"
                /\ error' = error
    /\ UNCHANGED <<metadata, defaultIdPlugin, pluginIndex, platformIndex, manifestFile,
                   exceptGenerate>>

\* A variant that does not await the output file: it appends the artifact and
\* goes on to the next platform as soon as the archive is finalized.
FinalizeArchive_Unawaited ==
    /\ pc = "finalize"
    /\ archives' = [archives EXCEPT ![Len(archives)].state = "finalized"]
    /\ metadata' = [metadata EXCEPT !.artifacts =
                        Append(@, [id |-> archives[Len(archives)].id,
                                   platform |-> Absent(""),
                                   path |-> archives[Len(archives)].id])]
    /\ events' = events \o <<Event("finalize", platformIndex, 0),
                              Event("append", platformIndex, 0)>>
    /\ platformIndex' = platformIndex + 1
    /\ pc' = AfterPlatform(platformIndex + 1)
    /\ UNCHANGED <<defaultIdPlugin, pluginIndex, active, manifestFile, error,
                   exceptGenerate>>

\* Lines 164-170: the archive is finalized and piped to its output file.
FinalizeArchive ==
    /\ pc = "finalize"
    /\ archives' = [archives EXCEPT ![Len(archives)].state = "finalized"]
    /\ events' = Append(events, Event("finalize", platformIndex, 0))
    /\ pc' = "close"
    /\ UNCHANGED <<metadata, defaultIdPlugin, pluginIndex, platformIndex, active,
                   manifestFile, error, exceptGenerate>>

ArtifactItem(archive) ==
    [id |-> archive.id,
     platform |-> IF project.platformSpecified
                  THEN Some(project.platforms[archive.platform].name) ELSE Absent(""),
     path |-> Normalize(archive.id \o <<".", "z", "i", "p">>)]

\* Lines 172-181: the output file's `close` arrives; the artifact is appended
\* to the manifest and the loop goes on to the next platform.
ArchiveClosed ==
    /\ pc = "close"
    /\ archives' = [archives EXCEPT ![Len(archives)].state = "closed"]
    /\ metadata' = [metadata EXCEPT !.artifacts = Append(@, ArtifactItem(archives[Len(archives)]))]
    /\ events' = events \o <<Event("close", platformIndex, 0), Event("append", platformIndex, 0)>>
    /\ platformIndex' = platformIndex + 1
    /\ pc' = AfterPlatform(platformIndex + 1)
    /\ UNCHANGED <<defaultIdPlugin, pluginIndex, active, manifestFile, error,
                   exceptGenerate>>

\* Line 172: the archiver or the output file emits `error` instead.
ArchiveFailed ==
    /\ pc = "close"
    /\ pc' = "failed"
    /\ error' = "I/O error"
    /\ UNCHANGED <<metadata, defaultIdPlugin, pluginIndex, platformIndex, active, archives,
                   manifestFile, events, exceptGenerate>>

\* Lines 184-190: the manifest is serialized and written.
WriteManifest ==
    /\ pc = "manifest"
    /\ events' = Append(events, Event("serialize", 0, 0))
    /\ \/ /\ manifestFile' = Some(metadata)
          /\ pc' = "done"
          /\ error' = error
       \/ /\ manifestFile' = manifestFile
          /\ pc' = "failed"
          /\ error' = "I/O error"
    /\ UNCHANGED <<metadata, defaultIdPlugin, pluginIndex, platformIndex, active, archives,
                   exceptGenerate>>

IdleGenerate ==
    /\ project = [name |-> <<>>, dir |-> <<>>, platforms |-> <<>>,
                  platformSpecified |-> FALSE, plugins |-> <<>>, dependencyDirMap |-> <<>>]
    /\ artifactConfig = [id |-> Absent(<<>>), files |-> <<>>, baseDir |-> Absent(<<>>),
                         targetDir |-> Absent(<<>>)]
    /\ mappings = <<>>
    /\ metadata = NoMetadata
    /\ defaultIdPlugin = 0
    /\ pluginIndex = 1
    /\ platformIndex = 1
    /\ active = <<>>
    /\ archives = <<>>
    /\ manifestFile = Absent(NoMetadata)
    /\ events = <<>>
    /\ error = ""
    /\ pc = "idle"

(***************************************************************************)
(* Specifications.                                                         *)
(***************************************************************************)
RenderInit == InitRender /\ IdleMatch /\ IdleNormalize /\ IdleBuild /\ IdleGenerate
NextRender == RenderCall
SpecRender == RenderInit /\ [][NextRender]_vars

MatchInit == InitMatch /\ IdleRender /\ IdleNormalize /\ IdleBuild /\ IdleGenerate
NextMatch == MatchCall
SpecMatch == MatchInit /\ [][NextMatch]_vars

NormalizeInit == InitNormalize /\ IdleRender /\ IdleMatch /\ IdleBuild /\ IdleGenerate
NextNormalize == NormalizeCall
SpecNormalize == NormalizeInit /\ [][NextNormalize]_vars

BuildInit == InitBuild /\ IdleRender /\ IdleMatch /\ IdleNormalize /\ IdleGenerate
NextBuild == BuildCall
SpecBuild == BuildInit /\ [][NextBuild]_vars

GenerateInit == InitGenerate /\ IdleRender /\ IdleMatch /\ IdleNormalize /\ IdleBuild
NextGenerate ==
    \/ RunPluginHooks
    \/ OpenArchive
    \/ WalkMapping
    \/ FinalizeArchive
    \/ ArchiveClosed
    \/ ArchiveFailed
    \/ WriteManifest
SpecGenerate == GenerateInit /\ [][NextGenerate]_vars

(***************************************************************************)
(* Claims about getMatchedPlatforms.                                       *)
(***************************************************************************)
KeepNamed(platforms, names) == SelectSeq(platforms, LAMBDA p : p.name \in names)

\* C2 as stated: `platforms` counts only when non-empty, an empty list falling
\* through to `platform`, then `multiplatform`, then the host platform.
C2_PrecedenceWithEmptyListSkipped ==
    mPc = "returned" =>
        mResult =
            IF mSpecifier.platforms.some /\ mSpecifier.platforms.v # <<>>
            THEN [platforms |-> KeepNamed(mPlatforms, Range(mSpecifier.platforms.v)),
                  specified |-> TRUE]
            ELSE IF mSpecifier.platform.some /\ mSpecifier.platform.v # ""
            THEN [platforms |-> KeepNamed(mPlatforms, {mSpecifier.platform.v}),
                  specified |-> TRUE]
            ELSE IF mSpecifier.multiplatform = Some(TRUE)
            THEN [platforms |-> mPlatforms, specified |-> TRUE]
            ELSE [platforms |-> <<[name |-> mHost]>>, specified |-> FALSE]

\* C2 (amended): if specifier.platforms is given, even as an empty list, the
\* result is the input list filtered to those names in the input list's order,
\* specified = true; otherwise if specifier.platform is a non-empty name, the
\* input list filtered to that name, specified = true; otherwise if
\* specifier.multiplatform is true, the whole input list, specified = true;
\* otherwise one platform named after the host, specified = false.
C2_PrecedenceWithPresentList ==
    mPc = "returned" =>
        mResult =
            IF mSpecifier.platforms.some
            THEN [platforms |-> KeepNamed(mPlatforms, Range(mSpecifier.platforms.v)),
                  specified |-> TRUE]
            ELSE IF mSpecifier.platform.some /\ mSpecifier.platform.v # ""
            THEN [platforms |-> KeepNamed(mPlatforms, {mSpecifier.platform.v}),
                  specified |-> TRUE]
            ELSE IF mSpecifier.multiplatform = Some(TRUE)
            THEN [platforms |-> mPlatforms, specified |-> TRUE]
            ELSE [platforms |-> <<[name |-> mHost]>>, specified |-> FALSE]

\* An empty `platforms` list beside a `platform` that names a configured
\* platform: nothing is matched, and the platforms count as specified.
C2_Witness ==
    /\ mPc = "returned"
    /\ mSpecifier.platforms = Some(<<>>)
    /\ mSpecifier.platform = Some("linux")
    /\ mPlatforms = <<[name |-> "win32"], [name |-> "linux"]>>
    /\ mResult = [platforms |-> <<>>, specified |-> TRUE]

(***************************************************************************)
(* Claims about render.                                                    *)
(***************************************************************************)
\* The value a key path leads to, or Undefined when some step yields no value.
RECURSIVE ValueAt(_, _, _)
ValueAt(node, keys, i) ==
    IF i > Len(keys) THEN node
    ELSE IF node.k = "object" /\ keys[i] \in DOMAIN node.f
    THEN ValueAt(node.f[keys[i]], keys, i + 1)
    ELSE Undefined

\* s[i..j] is a placeholder {expr}.
IsPlaceholder(s, i, j) ==
    /\ j > i + 1
    /\ s[i] = "{"
    /\ s[j] = "}"
    /\ \A k \in (i + 1)..(j - 1) : s[k] \in ExprChars

\* One substitution pass as the claim describes it: a placeholder whose key
\* path resolves is replaced by the value, any other is left as it is written.
RECURSIVE SubstituteFrom(_, _, _, _)
SubstituteFrom(s, i, data, out) ==
    IF i > Len(s) THEN out
    ELSE IF \E j \in i..Len(s) : IsPlaceholder(s, i, j)
    THEN LET j == CHOOSE j \in i..Len(s) : IsPlaceholder(s, i, j)
             value == ValueAt(data, Split(SubSeq(s, i + 1, j - 1), "."), 1)
         IN  SubstituteFrom(s, j + 1, data,
                            out \o (IF value = Undefined THEN SubSeq(s, i, j)
                                    ELSE ToStringJS(value)))
    ELSE SubstituteFrom(s, i + 1, data, Append(out, s[i]))

RECURSIVE SubstitutedTimes(_, _, _)
SubstitutedTimes(s, data, n) ==
    IF n = 0 THEN s ELSE SubstitutedTimes(SubstituteFrom(s, 1, data, <<>>), data, n - 1)

\* Some placeholder of the text reads a property of null on its key path.
RECURSIVE ReadsThroughNull(_, _)
ReadsThroughNull(keys, node) ==
    /\ keys # <<>>
    /\ \/ node.k = "null"
       \/ /\ node.k = "object"
          /\ Head(keys) \in DOMAIN node.f
          /\ ReadsThroughNull(Tail(keys), node.f[Head(keys)])

\* C3: whenever render returns, what it returns is the fixed point of the
\* substitution pass, reached by repeating the pass on the template: resolved
\* placeholders replaced by their values, the others left as written. A lookup
\* miss never raises an error: render raises only when a key path reads a
\* property of null, and then it does not return.
C3_ReturnsFixedPointOfSubstitution ==
    /\ rPc \in {"run", "done"} => rCur = SubstitutedTimes(rTemplate, rData, rPasses)
    /\ rPc = "done" => SubstituteFrom(rCur, 1, rData, <<>>) = rCur
    /\ rPc = "error" =>
           \E j \in 1..Len(rCur), i \in 1..Len(rCur) :
               /\ IsPlaceholder(rCur, i, j)
               /\ ReadsThroughNull(Split(SubSeq(rCur, i + 1, j - 1), "."), rData)

\* render("{a}", {a: "{b}", b: "x"}) has returned "x".
C3_Witness ==
    /\ rTemplate = Placeholder(<<"a">>)
    /\ rData = MkData(StrNode(Placeholder(<<"b">>)), StrNode(<<"x">>))
    /\ rPc = "done"
    /\ rCur = <<"x">>

\* Bound on the passes followed when looking for a self-reference.
RefDepth == 4

\* The placeholders a text holds.
RECURSIVE ExprsFrom(_, _)
ExprsFrom(s, i) ==
    IF i > Len(s) THEN {}
    ELSE LET m == MatchAt(s, i)
         IN  IF m.found THEN {m.expr} \cup ExprsFrom(s, m.last + 1)
             ELSE ExprsFrom(s, i + 1)

\* The placeholders of a text and of what it resolves to in up to n passes.
RECURSIVE ExprsWithin(_, _, _)
ExprsWithin(s, data, n) ==
    LET pass == ReplacePass(s, data)
    IN  IF n = 0 \/ pass.threw \/ pass.s = s \/ Len(pass.s) > MaxRenderLen
        THEN ExprsFrom(s, 1)
        ELSE ExprsFrom(s, 1) \cup ExprsWithin(pass.s, data, n - 1)

Resolves(expr, data) ==
    WalkKeys(Split(expr, "."), data).k \notin {"undefined", "TypeError"}

\* Some placeholder the template leads to has a value that resolves to a
\* template referencing that same placeholder, directly or through others.
SelfReferential(template, data) ==
    \E e \in ExprsWithin(template, data, RefDepth) :
        /\ Resolves(e, data)
        /\ e \in ExprsWithin(ToStringJS(WalkKeys(Split(e, "."), data)), data, RefDepth)

TemplateA == Placeholder(<<"a">>)

\* C10 as stated: with self-referential data, render("{a}", data) never returns.
C10_SelfReferenceNeverReturns ==
    (rTemplate = TemplateA /\ SelfReferential(rTemplate, rData)) => rPc # "done"

\* C10 (amended): render has no cycle detection and no iteration cap: it
\* returns only when a pass leaves the text unchanged, so self-referential data
\* whose passes keep changing the text (as {a:"{b}", b:"{a}"}) never lets
\* render("{a}", data) return, while {a:"{a}"}, whose first pass reproduces
\* "{a}", returns "{a}" at once; with no self-reference render terminates: no
\* invocation is left pending at the bounds.
C10_ReturnsOnlyAtFixedPoint ==
    /\ rPc = "done" => ReplacePass(rCur, rData).s = rCur
    /\ (rTemplate = TemplateA /\ rData = MkData(StrNode(Placeholder(<<"b">>)), StrNode(TemplateA)))
            => rPc # "done"
    /\ (rTemplate = TemplateA /\ rData = MkData(StrNode(TemplateA), Undefined) /\ rPasses > 0)
            => (rPc = "done" /\ rCur = TemplateA /\ rPasses = 1)
    /\ (~SelfReferential(rTemplate, rData) /\ rPc = "run")
            => CanFollow(ReplacePass(rCur, rData), rPasses)

\* render("{a}", {a: "{a}"}) has returned "{a}".
C10_Witness ==
    /\ rTemplate = TemplateA
    /\ rData = MkData(StrNode(TemplateA), Undefined)
    /\ SelfReferential(rTemplate, rData)
    /\ rPc = "done"
    /\ rCur = TemplateA

(***************************************************************************)
(* Claims about normalizeMapping.                                          *)
(***************************************************************************)
\* The pattern and the path an entry gives, as written.
GivenPattern(config) == IF config.kind = "string" THEN Some(config.text) ELSE config.pattern
GivenPath(config) == IF TruthyText(config.path) THEN config.path ELSE GivenPattern(config)

PatternMissing(config) == config.kind = "descriptor" /\ ~TruthyText(config.pattern)
PatternIsDirectory(config) == EndsWithSep(GivenPattern(config).v)
PathIsDirectory(config) == EndsWithSep(GivenPath(config).v)

\* What the claim says of every entry but the trailing separator of the path.
C5_Rest ==
    /\ nPc = "returned" => ~EndsWithSep(nResult.mapping.pattern)
    /\ (nPc # "call" /\ (PatternMissing(nConfig) \/ PatternIsDirectory(nConfig)))
            => nPc = "threw"
    /\ (nPc = "returned" /\ PathIsDirectory(nConfig))
            => nResult.mapping.path
                   = Normalize(GivenPath(nConfig).v
                                   \o Basename(Normalize(GivenPattern(nConfig).v)))
    /\ (nPc # "call" /\ ~PatternMissing(nConfig) /\ PathIsDirectory(nConfig)
            /\ Basename(GivenPattern(nConfig).v) = GlobStar
            /\ Basename(GivenPath(nConfig).v) = GlobStar)
            => nPc = "threw"

\* C5 as stated: every entry fails or yields a pattern and a path that do not
\* end in a separator; a missing pattern and a pattern ending in a separator
\* fail; a path ending in a separator gets the pattern's final component
\* appended; `**` appended to `**` fails.
C5_NoTrailingSeparator ==
    /\ C5_Rest
    /\ nPc = "returned" => ~EndsWithSep(nResult.mapping.path)

\* C5 (amended): every entry fails or yields a pattern that does not end in a
\* separator and a path that does not end in one either, unless that path is
\* the root "/" and the pattern's final component is "." or ".."; a missing
\* pattern and a pattern ending in a separator fail; a path ending in a
\* separator gets the pattern's final component appended; `**` appended to
\* `**` fails.
C5_NoTrailingSeparatorButRoot ==
    /\ C5_Rest
    /\ (nPc = "returned" /\ EndsWithSep(nResult.mapping.path))
            => /\ nResult.mapping.path = <<Sep>>
               /\ Basename(nResult.mapping.pattern) \in {<<".">>, <<".", ".">>}

\* The entry {pattern: a/b.txt, path: out/} has been normalised to out/b.txt.
C5_Witness ==
    /\ nPc = "returned"
    /\ nConfig.pattern = Some(ExamplePattern)
    /\ nConfig.path = Some(ExamplePath)
    /\ nResult.mapping.path = ExamplePath \o <<"b", ".", "t", "x", "t">>
    /\ nResult.mapping.pattern = ExamplePattern

(***************************************************************************)
(* Claims about buildPath.                                                 *)
(***************************************************************************)
IsGlobStarAt(s, i) == i < Len(s) /\ s[i] = "*" /\ s[i + 1] = "*"

\* The `**` and `*` tokens of a destination, read from the left.
RECURSIVE TokenCount(_, _, _)
TokenCount(s, i, counts) ==
    IF i > Len(s) THEN counts
    ELSE IF IsGlobStarAt(s, i)
    THEN TokenCount(s, i + 2, [counts EXCEPT !.globStars = @ + 1])
    ELSE IF s[i] = "*" THEN TokenCount(s, i + 1, [counts EXCEPT !.stars = @ + 1])
    ELSE TokenCount(s, i + 1, counts)

\* The destination with its i-th `*` replaced by the i-th of `stars` and its
\* i-th `**` by the i-th of `runs`, joined by the separator.
RECURSIVE Substituted(_, _, _, _, _)
Substituted(s, i, stars, runs, out) ==
    IF i > Len(s) THEN out
    ELSE IF IsGlobStarAt(s, i)
    THEN Substituted(s, i + 2, stars, Tail(runs), out \o JoinWith(Head(runs), <<Sep>>))
    ELSE IF s[i] = "*" THEN Substituted(s, i + 1, Tail(stars), runs, out \o Head(stars))
    ELSE Substituted(s, i + 1, stars, runs, Append(out, s[i]))

SegmentsOf(captures) ==
    LET strings == SelectSeq(captures, LAMBDA c : c.type = "string")
    IN  [i \in DOMAIN strings |-> strings[i].text]

RunsOf(captures) ==
    LET arrays == SelectSeq(captures, LAMBDA c : c.type = "array")
    IN  [i \in DOMAIN arrays |-> arrays[i].segments]

Aligned(pattern, captures) ==
    TokenCount(pattern, 1, [stars |-> 0, globStars |-> 0])
        = [stars |-> Len(SegmentsOf(captures)), globStars |-> Len(RunsOf(captures))]

\* C4: when the destination has as many `*` as Segment captures and as many
\* `**` as SegmentRun captures, buildPath returns the destination with the i-th
\* `*` replaced by the i-th Segment capture and the i-th `**` by the i-th
\* SegmentRun capture joined by the separator (so that no wildcard token of the
\* destination is left), normalized, and without a leading separator the
\* destination did not have.
C4_PositionalSubstitution ==
    (bPc = "returned" /\ Aligned(bPattern, bCaptures)) =>
        LET expected ==
                Normalize(Substituted(bPattern, 1, SegmentsOf(bCaptures), RunsOf(bCaptures), <<>>))
        IN  bResult = IF ~StartsWithSep(bPattern) /\ StartsWithSep(expected)
                      THEN Tail(expected) ELSE expected

(***************************************************************************)
(* Claims about generate.                                                  *)
(***************************************************************************)
IsPrefix(s, t) == Len(s) <= Len(t) /\ SubSeq(t, 1, Len(s)) = s

NameOf(index) == project.platforms[index].name

\* The mappings whose platform set is absent or holds the platform's name.
Kept(index) ==
    SelectSeq([m \in DOMAIN mappings |-> m],
              LAMBDA m : ~mappings[m].platformSet.some
                            \/ NameOf(index) \in mappings[m].platformSet.v)

HookEvents ==
    SelectSeq([i \in DOMAIN project.plugins |-> Event("hook", 0, i)],
              LAMBDA e : project.plugins[e.index].processArtifactMetadata)

PlatformEvents(index) ==
    <<Event("create", index, 0)>>
        \o [k \in DOMAIN Kept(index) |-> Event("walk", index, Kept(index)[k])]
        \o <<Event("finalize", index, 0), Event("close", index, 0),
             Event("append", index, 0)>>

ExpectedEvents ==
    HookEvents \o Flatten([index \in DOMAIN project.platforms |-> PlatformEvents(index)])
        \o <<Event("serialize", 0, 0)>>

\* C6: in every run of generate the events occur in one order: the plugin
\* metadata hooks, then per platform in resolved order the creation of its
\* archive, the walks of its active mappings in declaration order, finalize,
\* the close of its output file and only then the append of its manifest
\* entry, and after the last platform the one serialization of the manifest
\* (a run that fails stops somewhere in this order); at most one archive is
\* not yet closed at any time, and the manifest's artifacts are in resolved
\* platform order.
C6_EventOrder ==
    pc # "idle" =>
        /\ IsPrefix(events, ExpectedEvents)
        /\ pc = "done" => events = ExpectedEvents /\ manifestFile = Some(metadata)
        /\ manifestFile.some => pc = "done"
        /\ Cardinality({i \in DOMAIN archives : archives[i].state # "closed"}) <= 1
        /\ \A i \in DOMAIN archives : archives[i].platform = i
        /\ Len(metadata.artifacts)
              = Cardinality({i \in DOMAIN archives : archives[i].state = "closed"})
        /\ \A i \in DOMAIN metadata.artifacts :
              /\ archives[i].state = "closed"
              /\ metadata.artifacts[i].id = archives[i].id
              /\ project.platformSpecified => metadata.artifacts[i].platform = Some(NameOf(i))

C6_Witness ==
    /\ pc = "done"
    /\ Len(project.platforms) = 2
    /\ Len(HookEvents) = 2
    /\ Len(archives[1].walked) = 2
    /\ Len(archives[2].walked) = 1

\* The scenario of C1: two platforms, one of them linux, and one mapping,
\* restricted to linux.
C1_Scenario ==
    /\ pc # "idle"
    /\ Len(project.platforms) = 2
    /\ \E i \in 1..2 : NameOf(i) = "linux" /\ NameOf(3 - i) # "linux"
    /\ Len(mappings) = 1
    /\ mappings[1].platformSet = Some({"linux"})

\* C1 as stated: the run produces exactly one archive, the one for linux, and
\* the manifest's artifacts list has exactly one entry.
C1_OneArchiveOneEntry ==
    C1_Scenario /\ pc = "done" =>
        /\ Len(archives) = 1
        /\ NameOf(archives[1].platform) = "linux"
        /\ Len(manifestFile.v.artifacts) = 1

\* C1 (amended): over two platforms with one mapping restricted to linux, the
\* run produces one archive per platform, of which the one for linux alone
\* walks the mapping and the other is finalized and closed without any, and
\* the manifest's artifacts list has two entries, one per platform.
C1_ArchivePerPlatform ==
    C1_Scenario /\ pc = "done" =>
        /\ Len(archives) = 2
        /\ \A i \in 1..2 :
              /\ archives[i].state = "closed"
              /\ Len(archives[i].walked) = IF NameOf(archives[i].platform) = "linux" THEN 1 ELSE 0
        /\ {NameOf(archives[i].platform) : i \in 1..2} = {NameOf(1), NameOf(2)}
        /\ Len(manifestFile.v.artifacts) = 2
        /\ \A i \in 1..2 : manifestFile.v.artifacts[i].id = archives[i].id

C1_Witness ==
    /\ C1_Scenario
    /\ pc = "done"
    /\ Len(archives) = 2
    /\ \E i \in 1..2 : Len(archives[i].walked) = 0

\* The mappings an archive has walked.
WalkedBy(archive) == {archive.walked[k].mapping : k \in DOMAIN archive.walked}

\* C7 as stated: a mapping is walked for a platform iff its entry gives neither
\* platform nor platforms, or the platform's name is among the names of both
\* fields taken together.
C7_WalkedIffInMergedSet ==
    \A i \in DOMAIN archives :
        archives[i].state # "open" =>
            \A m \in DOMAIN mappings :
                LET entry == artifactConfig.files[m]
                    given == (IF entry.platforms.some THEN Range(entry.platforms.v) ELSE {})
                                \cup (IF entry.platform.some /\ entry.platform.v # ""
                                      THEN {entry.platform.v} ELSE {})
                    restricted == entry.platforms.some
                                    \/ (entry.platform.some /\ entry.platform.v # "")
                IN  m \in WalkedBy(archives[i]) <=> (~restricted \/ NameOf(i) \in given)

\* C7 (amended): platforms, when the entry gives it (even as an empty list),
\* alone decides: the mapping is walked for a platform iff the platform's name
\* is in it; otherwise a non-empty platform decides: walked iff it is the
\* platform's name; an entry with neither (or a bare string) is walked for
\* every platform.
C7_WalkedIffInPrecedingField ==
    \A i \in DOMAIN archives :
        /\ archives[i].state # "open" =>
              \A m \in DOMAIN mappings :
                  LET entry == artifactConfig.files[m]
                  IN  m \in WalkedBy(archives[i]) <=>
                          IF entry.platforms.some THEN NameOf(i) \in Range(entry.platforms.v)
                          ELSE IF entry.platform.some /\ entry.platform.v # ""
                          THEN NameOf(i) = entry.platform.v
                          ELSE TRUE
        /\ \A m \in WalkedBy(archives[i]) :
              LET entry == artifactConfig.files[m]
              IN  IF entry.platforms.some THEN NameOf(i) \in Range(entry.platforms.v)
                  ELSE IF entry.platform.some /\ entry.platform.v # ""
                  THEN NameOf(i) = entry.platform.v
                  ELSE TRUE

\* An archive for linux is finalized without a mapping whose platform is linux
\* and whose platforms is another name, and with one whose platform is empty.
C7_Witness ==
    \E i \in DOMAIN archives :
        /\ archives[i].state = "closed"
        /\ NameOf(i) = "linux"
        /\ \E m \in DOMAIN mappings :
              /\ artifactConfig.files[m].platform = Some("linux")
              /\ artifactConfig.files[m].platforms = Some(<<"win32">>)
              /\ m \notin WalkedBy(archives[i])
        /\ \E m \in WalkedBy(archives[i]) : artifactConfig.files[m].platform = Some("")

\* The plugins that have a default-id generator.
Generators == {i \in DOMAIN project.plugins : project.plugins[i].getDefaultArtifactId}
LastGenerator == CHOOSE i \in Generators : \A j \in Generators : j <= i

NameKeyText == <<"n", "a", "m", "e">>

\* C8 as stated: the id is the rendering, with platform bound to the
\* platform's name together with the platform's variables, of the configured
\* id if present, else of the plugin's default id, else of "{name}-{platform}"
\* when more than one platform is processed and of "{name}" otherwise.
C8_IdFromPlatformAndVariables ==
    \A i \in DOMAIN archives :
        LET template ==
                IF artifactConfig.id.some /\ artifactConfig.id.v # <<>> THEN artifactConfig.id.v
                ELSE IF Generators # {}
                THEN IF project.platformSpecified
                     THEN project.plugins[LastGenerator].idWithPlatform
                     ELSE project.plugins[LastGenerator].idWithout
                ELSE IF Len(project.platforms) > 1
                THEN Placeholder(NameKeyText) \o <<"-">> \o Placeholder(PlatformKeyText)
                ELSE Placeholder(NameKeyText)
            data ==
                ObjNode([key \in {NameKeyText, PlatformKeyText}
                                    \cup DOMAIN VariablesOf(project.platforms[i]) |->
                            IF key \in DOMAIN VariablesOf(project.platforms[i])
                            THEN VariablesOf(project.platforms[i])[key]
                            ELSE IF key = NameKeyText THEN StrNode(project.name)
                            ELSE StrNode(TextOf(NameOf(i)))])
        IN  archives[i].id = render(template, data, MaxPasses)

\* C8 (amended): the id is the rendering, with platform bound to the
\* platform's name only when the project's platforms were specified and with
\* none of the platform's variables, of the configured id if non-empty, else
\* of the default id of the last plugin that generates one (asked with the
\* platform only when platforms were specified), else of "{name}-{platform}"
\* when the project's platforms were specified and of "{name}" otherwise.
C8_IdFromSpecifiedPlatform ==
    \A i \in DOMAIN archives :
        LET template ==
                IF artifactConfig.id.some /\ artifactConfig.id.v # <<>> THEN artifactConfig.id.v
                ELSE IF Generators # {}
                THEN IF project.platformSpecified
                     THEN project.plugins[LastGenerator].idWithPlatform
                     ELSE project.plugins[LastGenerator].idWithout
                ELSE IF project.platformSpecified
                THEN Placeholder(NameKeyText) \o <<"-">> \o Placeholder(PlatformKeyText)
                ELSE Placeholder(NameKeyText)
            data ==
                ObjNode([key \in {NameKeyText} \cup (IF project.platformSpecified
                                                     THEN {PlatformKeyText} ELSE {}) |->
                            IF key = NameKeyText THEN StrNode(project.name)
                            ELSE StrNode(TextOf(NameOf(i)))])
        IN  archives[i].id = render(template, data, MaxPasses)

\* One specified platform without configured id or plugin: the id names it.
C8_Witness ==
    /\ pc = "done"
    /\ project.platformSpecified
    /\ Len(project.platforms) = 1
    /\ ~artifactConfig.id.some
    /\ Generators = {}
    /\ archives[1].id = project.name \o <<"-">> \o TextOf(NameOf(1))

HasDir(key) == key \in DOMAIN project.dependencyDirMap

NotFound == "Dependency package not found"

\* The directory of a walk: the package's, with the mapping's own baseDir below.
Below(dir, mapping) ==
    IF mapping.baseDir.some /\ mapping.baseDir.v # <<>>
    THEN dir \o <<"/">> \o mapping.baseDir.v ELSE dir

\* C9 as stated: a walked package mapping has the package's directory for the
\* platform when the table has one, otherwise the generic one; the run fails
\* with the dependency error iff the table has neither; after the failure no
\* archive is opened and no manifest written.
C9_PlatformDirWheneverListed ==
    /\ \A i \in DOMAIN archives : \A k \in DOMAIN archives[i].walked :
          LET mapping == mappings[archives[i].walked[k].mapping]
          IN  mapping.package.some =>
                  /\ HasDir(<<mapping.package.v, NameOf(i)>>) \/ HasDir(<<mapping.package.v>>)
                  /\ archives[i].walked[k].resolved =
                        Below(IF HasDir(<<mapping.package.v, NameOf(i)>>)
                              THEN project.dependencyDirMap[<<mapping.package.v, NameOf(i)>>]
                              ELSE project.dependencyDirMap[<<mapping.package.v>>], mapping)
    /\ error = NotFound =>
          /\ pc = "failed"
          /\ mappings[Head(active)].package.some
          /\ ~HasDir(<<mappings[Head(active)].package.v, NameOf(platformIndex)>>)
          /\ ~HasDir(<<mappings[Head(active)].package.v>>)
          /\ Len(archives) = platformIndex
          /\ ~manifestFile.some

\* C9 (amended): a walked package mapping has, with its own baseDir resolved
\* below it, the package's directory for the platform when the project's
\* platforms were specified and the table has one, otherwise the generic one;
\* the run fails with the dependency error exactly at an active package
\* mapping for which the table has no such directory; after the failure no
\* archive is opened and no manifest written.
C9_PlatformDirWhenSpecified ==
    /\ \A i \in DOMAIN archives : \A k \in DOMAIN archives[i].walked :
          LET mapping == mappings[archives[i].walked[k].mapping]
              specific == project.platformSpecified
                            /\ HasDir(<<mapping.package.v, NameOf(i)>>)
          IN  mapping.package.some =>
                  /\ specific \/ HasDir(<<mapping.package.v>>)
                  /\ archives[i].walked[k].resolved =
                        Below(IF specific
                              THEN project.dependencyDirMap[<<mapping.package.v, NameOf(i)>>]
                              ELSE project.dependencyDirMap[<<mapping.package.v>>], mapping)
    /\ error = NotFound =>
          /\ pc = "failed"
          /\ mappings[Head(active)].package.some
          /\ ~(project.platformSpecified
                  /\ HasDir(<<mappings[Head(active)].package.v, NameOf(platformIndex)>>))
          /\ ~HasDir(<<mappings[Head(active)].package.v>>)
          /\ Len(archives) = platformIndex
          /\ archives[platformIndex].state = "open"
          /\ ~manifestFile.some
          /\ \A e \in Range(events) : e.type # "serialize"
    /\ pc = "failed" => ~manifestFile.some

\* A run over the unspecified host platform walks a package mapping from the
\* generic directory although the table lists the host's own.
C9_Witness ==
    /\ ~project.platformSpecified
    /\ archives # <<>>
    /\ \E k \in DOMAIN archives[1].walked :
          LET mapping == mappings[archives[1].walked[k].mapping]
          IN  /\ mapping.package.some
              /\ HasDir(<<mapping.package.v, NameOf(1)>>)
              /\ archives[1].walked[k].resolved
                    = Below(project.dependencyDirMap[<<mapping.package.v>>], mapping)

====
